---------------------------- MODULE Spec2Model ----------------------------
(***************************************************************************)
(* dumbsnake (src/dumbsnake.c): the board, the snake's doubly linked       *)
(* chain of parts on a small heap, and the main loop of game().            *)
(*                                                                         *)
(* Keys are written as strings: "q" and "p" are the characters, KEY_LEFT   *)
(* .. KEY_RESIZE are the curses key codes, "x" stands for any key the      *)
(* switch has no case for, ERR is getch()'s -1.                            *)
(***************************************************************************)
EXTENDS Integers, Sequences, FiniteSets

VARIABLES
    COLS, LINES,            \* curses' view of the terminal size
    prev_COLS, prev_LINES,  \* game(): the size the board was built for
    board,                  \* board_t: [width, height, text], or NoBoard
    snake,                  \* snake_t: [len, head, tail], or NoSnake
    parts,                  \* the heap of snake_part_t: address -> part or Free
    dx, dy,                 \* game(): the direction
    key, prev_key,          \* game(): the drain loop's keys
    quit, paused,           \* game(): the flags
    pc,                     \* where game() stands
    keysLeft,               \* environment: key events still to be delivered
    ticksLeft,              \* environment: loop iterations still to be run
    drained,                \* history: the keys getch() returned in this pass
    applied,                \* history: how often the switch ran in this pass
    paused0,                \* history: the paused flag when this pass began
    lastMove,               \* history: direction of the last move of this snake
    term,                   \* the terminal's mode: "shell" or "curses"
    hooks,                  \* the functions registered with atexit
    iter,                   \* history: this loop iteration: paused flag and direction at its start, moves, renders and key reads so far
    timestamp,              \* game(): the clock reading of this tick
    prev_timestamp,         \* game(): the clock reading of the tick before
    delay,                  \* game(): the argument of nanosleep
    slept,                  \* history: the last rhythm step called nanosleep
    prevPassKey,            \* history: the last key read in the drain pass before this one, or ERR
    firstP                  \* history: the last key read, if it was a 'p' read while
                            \* running: was it applied, was a resize pending, the
                            \* snake's positions then

vars == <<COLS, LINES, prev_COLS, prev_LINES, board, snake, parts, dx, dy,
          key, prev_key, quit, paused, pc, keysLeft, ticksLeft, drained,
          applied, paused0, lastMove, firstP, term, hooks, iter, timestamp, prev_timestamp, delay, slept, prevPassKey>>

---------------------------------------------------------------------------
(* Bounds of the model *)

\* Spec: runs of any length with at most MaxEvents key events, on terminals
\* of 1..MaxCols columns and 1..MaxLines lines
MaxCols == 2
MaxLines == 3
MaxEvents == 1
\* KeySpec: runs of at most MaxKeyTicks loop iterations with at most MaxKeys
\* key events, on terminals of 1..MaxKeyCols columns and 1..MaxKeyLines lines
MaxKeyCols == 1
MaxKeyLines == 2
MaxKeys == 3
MaxKeyTicks == 3
\* size_t is SizeBits wide
SizeBits == 16
\* board sizes of the ds_board_create specification
MaxBoardDim == 8
\* TimerSpec: runs of at most MaxTimerTicks loop iterations
MaxTimerTicks == 2
\* ScenarioSpec: at most MaxScenarioMoves calls of ds_snake_move in a row
MaxScenarioMoves == 25

(* Program constants *)

DS_DELAY_MILLIS == 50
DS_FULL_GROWN_LEN == 15
DS_CHAR_SNAKE_BODY == "X"
DS_CHAR_FLOOR == " "
NUL == "\\0"
NULL == 0

SizeMod == 2 ^ SizeBits

DS_MIN(a, b) == IF a < b THEN a ELSE b

ERR == "ERR"
Uninit == "uninit"
KEY_LEFT == "KEY_LEFT"
KEY_RIGHT == "KEY_RIGHT"
KEY_UP == "KEY_UP"
KEY_DOWN == "KEY_DOWN"
KEY_RESIZE == "KEY_RESIZE"
\* what getch() can return besides ERR and KEY_RESIZE
Keys == {"q", "p", KEY_LEFT, KEY_RIGHT, KEY_UP, KEY_DOWN, "x"}

NoBoard == [width |-> 0, height |-> 0, text |-> <<>>]
NoSnake == [len |-> 0, head |-> NULL, tail |-> NULL]
Free == [pos |-> <<0, 0>>, prev |-> NULL, next |-> NULL, live |-> FALSE]
Addrs == 1 .. (DS_FULL_GROWN_LEN + 1)
EmptyHeap == [a \in Addrs |-> Free]
NoMove == <<0, 0>>
NoLimit == 0 - 1
\* a struct timespec not yet assigned, and the first clock reading of a run
NoTime == [tv_sec |-> 0 - 1, tv_nsec |-> 0 - 1]
T0 == [tv_sec |-> 0, tv_nsec |-> 0]
NoIter == [paused |-> FALSE, dir |-> <<0, 0 - 1>>, moves |-> 0, renders |-> 0,
           reads |-> 0]
NoFirstP == [armed |-> FALSE, applied |-> FALSE, resized |-> FALSE, pos |-> <<>>]

---------------------------------------------------------------------------
(* Board *)

help == <<"P", "r", "e", "s", "s", " ", "'", "q", "'", " ", "t", "o", " ",
          "q", "u", "i", "t", ",", " ", "'", "p", "'", " ", "t", "o", " ",
          "p", "a", "u", "s", "e", ".">>

\* strncpy(dst, src, n): n characters, NUL-padded past the end of src
strncpy(dst, src, n) ==
    [i \in DOMAIN dst |->
        IF i < n THEN (IF i < Len(src) THEN src[i + 1] ELSE NUL) ELSE dst[i]]

\* board->array[y][x] is board->text[y * width + x]
ArrayIdx(b, x, y) == y * b.width + x

HelpLen_short(len) == DS_MIN(Len(help), len) - 1
HelpLen(len) == DS_MIN(Len(help), len)

ds_board_create(width, height) ==
    LET len == (width * height) % SizeMod
        filled == [i \in 0 .. len |-> IF i = len THEN NUL ELSE DS_CHAR_FLOOR]
    IN  [width |-> width, height |-> height,
         text |-> strncpy(filled, help, HelpLen(len))]

---------------------------------------------------------------------------
(* Snake *)

\* malloc: the lowest free address
malloc(heap) == CHOOSE a \in Addrs : ~heap[a].live /\ \A b \in 1 .. (a - 1) : heap[b].live

ds_snake_create(heap, x, y) ==
    LET part == malloc(heap)
    IN  [snake |-> [len |-> 1, head |-> part, tail |-> part],
         parts |-> [heap EXCEPT ![part] =
                       [pos |-> <<x % SizeMod, y % SizeMod>>, prev |-> NULL,
                        next |-> NULL, live |-> TRUE]]]

\* the addresses from a along the next links (at most n of them)
RECURSIVE ChainFrom(_, _, _)
ChainFrom(heap, a, n) ==
    IF a = NULL \/ n = 0 THEN <<>>
    ELSE <<a>> \o ChainFrom(heap, heap[a].next, n - 1)

Chain(s, heap) == ChainFrom(heap, s.head, Cardinality(Addrs))

Positions(s, heap) ==
    LET chain == Chain(s, heap)
    IN  [i \in DOMAIN chain |-> heap[chain[i]].pos]

\* ds_snake_destroy frees every part reachable from head
ds_snake_destroy(s, heap) ==
    LET chain == Chain(s, heap)
        freed == {chain[i] : i \in DOMAIN chain}
    IN  [a \in Addrs |-> IF a \in freed THEN Free ELSE heap[a]]

RECURSIVE PutParts(_, _, _)
PutParts(b, heap, chain) ==
    IF chain = <<>> THEN b
    ELSE LET p == heap[Head(chain)].pos
         IN  PutParts([b EXCEPT !.text[ArrayIdx(b, p[1], p[2])] = DS_CHAR_SNAKE_BODY],
                      heap, Tail(chain))

ds_board_put_snake(b, s, heap) == PutParts(b, heap, Chain(s, heap))

\* an int delta converted to size_t
ToSizeT(d) == d % SizeMod

WrapAdd_noshift(c, d, dim) == ((c + ToSizeT(d)) % SizeMod) % dim
\* (c + d + dim) % dim in size_t arithmetic
WrapAdd(c, d, dim) == ((((c + ToSizeT(d)) % SizeMod) + dim) % SizeMod) % dim

CutOff_never(len) == FALSE
CutOff_ge(len) == len >= DS_FULL_GROWN_LEN
CutOff(len) == len > DS_FULL_GROWN_LEN

Unlink_skip(heap, tail) == heap
\* line 181: snake->tail->prev->next = NULL
Unlink(heap, tail) == [heap EXCEPT ![heap[tail].prev].next = NULL]

ds_snake_move(s, heap, b, ddx, ddy) ==
    LET part == malloc(heap)
        hp == heap[s.head].pos
        np == <<WrapAdd(hp[1], ddx, b.width), WrapAdd(hp[2], ddy, b.height)>>
        b1 == [b EXCEPT !.text[ArrayIdx(b, np[1], np[2])] = DS_CHAR_SNAKE_BODY]
        h1 == [heap EXCEPT ![part] = [pos |-> np, prev |-> NULL,
                                      next |-> s.head, live |-> TRUE],
                           ![s.head].prev = part]
        s1 == [s EXCEPT !.head = part, !.len = (s.len + 1) % SizeMod]
    IN  IF CutOff(s1.len)
        THEN LET tail_backup == s1.tail
                 tp == h1[tail_backup].pos
                 h2 == Unlink(h1, tail_backup)
             IN  [snake |-> [s1 EXCEPT !.tail = h2[tail_backup].prev,
                                       !.len = s1.len - 1],
                  parts |-> [h2 EXCEPT ![tail_backup] = Free],
                  board |-> [b1 EXCEPT !.text[ArrayIdx(b1, tp[1], tp[2])] = DS_CHAR_FLOOR]]
        ELSE [snake |-> s1, parts |-> h1, board |-> b1]

---------------------------------------------------------------------------
(* game(): the key switch *)

Repeat_never(k, pk) == FALSE
\* "Each key only once (if hold or repeated)"
Repeat(k, pk) == k = pk

DirAfterKey_diagonal(k, x, y) ==
    CASE k = KEY_LEFT  -> IF x = 0 THEN <<0 - 1, y>> ELSE <<x, y>>
      [] k = KEY_RIGHT -> IF x = 0 THEN <<1, y>> ELSE <<x, y>>
      [] k = KEY_UP    -> IF y = 0 THEN <<x, 0 - 1>> ELSE <<x, y>>
      [] k = KEY_DOWN  -> IF y = 0 THEN <<x, 1>> ELSE <<x, y>>
      [] OTHER         -> <<x, y>>
DirAfterKey_unguarded(k, x, y) ==
    CASE k = KEY_LEFT  -> <<-1, 0>>
      [] k = KEY_RIGHT -> <<1, 0>>
      [] k = KEY_UP    -> <<0, -1>>
      [] k = KEY_DOWN  -> <<0, 1>>
      [] OTHER         -> <<x, y>>
DirAfterKey(k, x, y) ==
    CASE k = KEY_LEFT  -> IF x = 0 THEN <<-1, 0>> ELSE <<x, y>>
      [] k = KEY_RIGHT -> IF x = 0 THEN <<1, 0>> ELSE <<x, y>>
      [] k = KEY_UP    -> IF y = 0 THEN <<0, -1>> ELSE <<x, y>>
      [] k = KEY_DOWN  -> IF y = 0 THEN <<0, 1>> ELSE <<x, y>>
      [] OTHER         -> <<x, y>>

PausedAfterKey(k, p) == IF k = "p" THEN ~p ELSE p

QuitAfterKey_never(k, q) == q
QuitAfterKey(k, q) == IF k = "q" THEN TRUE ELSE q

MoveWanted_always(p) == TRUE
\* "if (! paused)"
MoveWanted(p) == ~p

---------------------------------------------------------------------------
(* game() *)

TermSizes == (1 .. MaxCols) \X (1 .. MaxLines)

KeyTermSizes == (1 .. MaxKeyCols) \X (1 .. MaxKeyLines)

\* lines 198-219: the state when the main loop is first entered
GameInit(c, l, nkeys, nticks) ==
    LET b0 == ds_board_create(c, l)
        sc == ds_snake_create(EmptyHeap, c \div 2, l \div 2)
    IN  /\ COLS = c /\ LINES = l
        /\ prev_COLS = c /\ prev_LINES = l
        /\ board = ds_board_put_snake(b0, sc.snake, sc.parts)
        /\ snake = sc.snake
        /\ parts = sc.parts
        /\ dx = 0 /\ dy = -1
        /\ key = Uninit /\ prev_key = Uninit
        /\ quit = FALSE /\ paused = FALSE
        /\ pc = "loop"
        /\ keysLeft = nkeys
        /\ ticksLeft = nticks
        /\ drained = <<>> /\ applied = 0 /\ paused0 = FALSE
        /\ lastMove = NoMove
        /\ firstP = NoFirstP
        /\ prevPassKey = ERR
        /\ slept = FALSE
        /\ delay = NoTime
        /\ prev_timestamp = T0
        /\ timestamp = T0
        /\ iter = NoIter
        /\ hooks = <<"ds_curses_stop">>
        /\ term = "curses"

Init == \E sz \in TermSizes : GameInit(sz[1], sz[2], MaxEvents, NoLimit)

KeyInit == \E sz \in KeyTermSizes : GameInit(sz[1], sz[2], MaxKeys, MaxKeyTicks)

SizeChanged_cols(c, pcols, l, plines) == c # pcols
\* line 222: (COLS != prev_COLS) || (prev_LINES != LINES)
SizeChanged(c, pcols, l, plines) == (c # pcols) \/ (plines # l)

\* lines 220-231: the loop test and "Reset on window size change"
LoopTop ==
    /\ pc = "loop" /\ ~quit
    /\ ticksLeft # 0
    /\ ticksLeft' = IF ticksLeft = NoLimit THEN NoLimit ELSE ticksLeft - 1
    /\ \/ /\ SizeChanged(COLS, prev_COLS, LINES, prev_LINES)
          /\ LET sc == ds_snake_create(ds_snake_destroy(snake, parts),
                                       COLS \div 2, LINES \div 2)
             IN  /\ board' = ds_board_create(COLS, LINES)
                 /\ snake' = sc.snake
                 /\ parts' = sc.parts
          /\ prev_COLS' = COLS /\ prev_LINES' = LINES
          /\ lastMove' = NoMove
       \/ /\ ~SizeChanged(COLS, prev_COLS, LINES, prev_LINES)
          /\ UNCHANGED <<board, snake, parts, prev_COLS, prev_LINES, lastMove>>
    /\ iter' = [paused |-> paused, dir |-> <<dx, dy>>, moves |-> 0, renders |-> 0,
                reads |-> 0]
    /\ pc' = "step"
    /\ UNCHANGED <<prevPassKey, slept, delay, prev_timestamp, timestamp, hooks, term, paused0, COLS, LINES, dx, dy, key, prev_key, quit, paused, keysLeft,
                   drained, applied, firstP>>

\* lines 233-235: "Do a single step"
Step ==
    /\ pc = "step"
    /\ \/ /\ MoveWanted(paused)
          /\ LET m == ds_snake_move(snake, parts, board, dx, dy)
             IN  /\ snake' = m.snake
                 /\ parts' = m.parts
                 /\ board' = m.board
          /\ lastMove' = <<dx, dy>>
          /\ iter' = [iter EXCEPT !.moves = iter.moves + 1]
       \/ /\ ~MoveWanted(paused)
          /\ UNCHANGED <<snake, parts, board, lastMove, iter>>
    /\ pc' = "print"
    /\ UNCHANGED <<prevPassKey, slept, delay, prev_timestamp, timestamp, hooks, term, paused0, ticksLeft, COLS, LINES, prev_COLS, prev_LINES, dx, dy, key, prev_key,
                   quit, paused, keysLeft, drained, applied, firstP>>

PassStartKey_keep(pk) == pk
\* line 239: prev_key = -1
PassStartKey(pk) == ERR

\* lines 236-239: ds_board_print, then the drain pass starts with prev_key = -1
Render ==
    /\ pc = "print"
    /\ prev_key' = PassStartKey(prev_key)
    /\ prevPassKey' = IF drained = <<>> THEN ERR ELSE drained[Len(drained)]
    /\ drained' = <<>> /\ applied' = 0 /\ paused0' = paused
    /\ pc' = "keys"
    /\ iter' = [iter EXCEPT !.renders = iter.renders + 1]
    /\ UNCHANGED <<slept, delay, prev_timestamp, timestamp, hooks, term, ticksLeft, COLS, LINES, prev_COLS, prev_LINES, board, snake, parts, dx, dy,
                   key, quit, paused, keysLeft, lastMove, firstP>>

\* lines 241-244: getch() has no key
GetchNone ==
    /\ pc = "keys"
    /\ key' = ERR
    /\ pc' = "rhythm"
    /\ UNCHANGED <<prevPassKey, slept, delay, prev_timestamp, timestamp, iter, hooks, term, paused0, ticksLeft, COLS, LINES, prev_COLS, prev_LINES, board, snake, parts, dx, dy,
                   prev_key, quit, paused, keysLeft, drained, applied, lastMove,
                   firstP>>

DrainOn_always(q) == TRUE
\* the inner "while (! quit)"
DrainOn(q) == ~q

\* lines 246-284 for the key k that getch() returned
HandleKey(k) ==
    /\ key' = k
    /\ drained' = Append(drained, k)
    /\ iter' = [iter EXCEPT !.reads = iter.reads + 1]
    /\ firstP' = IF k = "p" /\ ~paused
                 THEN [armed |-> TRUE, applied |-> ~Repeat(k, prev_key),
                       resized |-> SizeChanged(COLS, prev_COLS, LINES, prev_LINES),
                       pos |-> Positions(snake, parts)]
                 ELSE NoFirstP
    /\ IF Repeat(k, prev_key)
       THEN UNCHANGED <<prev_key, quit, paused, dx, dy, applied>>
       ELSE /\ prev_key' = k
            /\ applied' = applied + 1
            /\ quit' = QuitAfterKey(k, quit)
            /\ paused' = PausedAfterKey(k, paused)
            /\ dx' = DirAfterKey(k, dx, dy)[1]
            /\ dy' = DirAfterKey(k, dx, dy)[2]
    /\ pc' = IF DrainOn(quit') THEN "keys" ELSE "rhythm"

\* getch() returns a key of the keyboard
GetchKey ==
    /\ pc = "keys" /\ keysLeft > 0
    /\ keysLeft' = keysLeft - 1
    /\ \E k \in Keys : HandleKey(k)
    /\ UNCHANGED <<prevPassKey, slept, delay, prev_timestamp, timestamp, hooks, term, paused0, ticksLeft, COLS, LINES, prev_COLS, prev_LINES, board, snake, parts, lastMove>>

\* getch() notices a resized terminal: curses updates COLS and LINES (to a
\* size of sizes) and returns KEY_RESIZE, a key the switch has no case for
GetchResize(sizes) ==
    /\ pc = "keys" /\ keysLeft > 0
    /\ keysLeft' = keysLeft - 1
    /\ \E sz \in sizes :
          /\ sz # <<COLS, LINES>>
          /\ COLS' = sz[1] /\ LINES' = sz[2]
    /\ HandleKey(KEY_RESIZE)
    /\ UNCHANGED <<prevPassKey, slept, delay, prev_timestamp, timestamp, hooks, term, paused0, ticksLeft, prev_COLS, prev_LINES, board, snake, parts, lastMove>>

ds_nano_diff_nsec(before, after) == after.tv_nsec - before.tv_nsec
\* lines 189-194, in (64-bit) long arithmetic
ds_nano_diff(before, after) ==
    LET nano_before == before.tv_nsec + 1000*1000*1000 * before.tv_sec
        nano_after == after.tv_nsec + 1000*1000*1000 * after.tv_sec
    IN  nano_after - nano_before

\* the clock never goes back
NotBefore(t, u) ==
    t.tv_sec > u.tv_sec \/ (t.tv_sec = u.tv_sec /\ t.tv_nsec >= u.tv_nsec)

\* lines 286-296: "Apply rythm" when clock_gettime returns one of readings,
\* back to the loop test
Rhythm(readings) ==
    /\ pc = "rhythm"
    /\ \E t \in readings :
          /\ NotBefore(t, prev_timestamp)
          /\ timestamp' = t
          /\ LET nanosecs_passed == ds_nano_diff(prev_timestamp, t)
                 nanos_to_sleep == DS_DELAY_MILLIS*1000*1000 - nanosecs_passed
                 tv_sec == nanos_to_sleep \div (1000*1000*1000)
             IN  IF nanos_to_sleep > 0
                 THEN /\ delay' = [tv_sec |-> tv_sec,
                                   tv_nsec |-> nanos_to_sleep - 1000*1000*1000 * tv_sec]
                      /\ slept' = TRUE
                 ELSE /\ delay' = delay
                      /\ slept' = FALSE
          /\ prev_timestamp' = t
    /\ pc' = "loop"
    /\ UNCHANGED <<prevPassKey, iter, hooks, term, paused0, ticksLeft, COLS, LINES, prev_COLS, prev_LINES,
                   board, snake, parts, dx, dy, key, prev_key, quit, paused, keysLeft,
                   drained, applied, lastMove, firstP>>

\* the game specifications' clock: no CPU time passes that it can measure
SameTime == {prev_timestamp}

ds_board_destroy(b) == NoBoard

\* lines 220, 298-299: the loop ends, board and snake are destroyed
LoopExit ==
    /\ pc = "loop" /\ quit
    /\ board' = ds_board_destroy(board)
    /\ parts' = ds_snake_destroy(snake, parts)
    /\ snake' = NoSnake
    /\ pc' = "done"
    /\ UNCHANGED <<prevPassKey, slept, delay, prev_timestamp, timestamp, iter, hooks, term, paused0, ticksLeft, COLS, LINES, prev_COLS, prev_LINES, dx, dy, key, prev_key,
                   quit, paused, keysLeft, drained, applied, lastMove, firstP>>

Next == LoopTop \/ Step \/ Render \/ GetchNone \/ GetchKey
            \/ GetchResize(TermSizes) \/ Rhythm(SameTime) \/ LoopExit

KeyNext == LoopTop \/ Step \/ Render \/ GetchNone \/ GetchKey
               \/ GetchResize(KeyTermSizes) \/ Rhythm(SameTime) \/ LoopExit

Spec == Init /\ [][Next]_vars

KeySpec == KeyInit /\ [][KeyNext]_vars

---------------------------------------------------------------------------
(* ds_board_create on its own: every board of 1..MaxBoardDim columns and   *)
(* lines                                                                   *)

BoardInit ==
    /\ COLS \in 1 .. MaxBoardDim /\ LINES \in 1 .. MaxBoardDim
    /\ prev_COLS = COLS /\ prev_LINES = LINES
    /\ board = NoBoard
    /\ snake = NoSnake
    /\ parts = EmptyHeap
    /\ dx = 0 /\ dy = -1
    /\ key = Uninit /\ prev_key = Uninit
    /\ quit = FALSE /\ paused = FALSE
    /\ pc = "create"
    /\ keysLeft = 0 /\ ticksLeft = 0
    /\ drained = <<>> /\ applied = 0 /\ paused0 = FALSE
    /\ lastMove = NoMove
    /\ firstP = NoFirstP
    /\ prevPassKey = ERR
    /\ slept = FALSE
    /\ delay = NoTime
    /\ prev_timestamp = T0
    /\ timestamp = T0
    /\ iter = NoIter
    /\ hooks = <<"ds_curses_stop">>
    /\ term = "curses"

\* line 202: board = ds_board_create(COLS, LINES)
BoardCreate ==
    /\ pc = "create"
    /\ board' = ds_board_create(COLS, LINES)
    /\ pc' = "created"
    /\ UNCHANGED <<prevPassKey, slept, delay, prev_timestamp, timestamp, iter, hooks, term, COLS, LINES, prev_COLS, prev_LINES, snake, parts, dx, dy, key,
                   prev_key, quit, paused, keysLeft, ticksLeft, drained, applied,
                   paused0, lastMove, firstP>>

BoardNext == BoardCreate

BoardSpec == BoardInit /\ [][BoardNext]_vars

---------------------------------------------------------------------------
(* ds_snake_move called over and over with one direction, after the calls  *)
(* of lines 202-204: on every small board from every cell, and on the      *)
(* boards of 20x20 and 10x5 from the centre                                *)

\* the directions ds_snake_move's assertions (lines 160-162) admit
Dirs == {<<0 - 1, 0>>, <<1, 0>>, <<0, 0 - 1>>, <<0, 1>>}

\* <<<<width, height>>, <<x, y>>>>
ScenarioStarts ==
    {st \in TermSizes \X ((0 .. (MaxCols - 1)) \X (0 .. (MaxLines - 1))) :
        st[2][1] < st[1][1] /\ st[2][2] < st[1][2]}
      \cup {<<<<20, 20>>, <<10, 10>>>>, <<<<10, 5>>, <<5, 2>>>>}

ScenarioInit ==
    \E st \in ScenarioStarts, d \in Dirs :
        LET b0 == ds_board_create(st[1][1], st[1][2])
            sc == ds_snake_create(EmptyHeap, st[2][1], st[2][2])
        IN  /\ COLS = st[1][1] /\ LINES = st[1][2]
            /\ prev_COLS = COLS /\ prev_LINES = LINES
            /\ board = ds_board_put_snake(b0, sc.snake, sc.parts)
            /\ snake = sc.snake
            /\ parts = sc.parts
            /\ dx = d[1] /\ dy = d[2]
            /\ key = Uninit /\ prev_key = Uninit
            /\ quit = FALSE /\ paused = FALSE
            /\ pc = "scenario"
            /\ keysLeft = 0
            /\ ticksLeft = MaxScenarioMoves
            /\ drained = <<>> /\ applied = 0 /\ paused0 = FALSE
            /\ lastMove = NoMove
            /\ firstP = NoFirstP
            /\ prevPassKey = ERR
            /\ slept = FALSE
            /\ delay = NoTime
            /\ prev_timestamp = T0
            /\ timestamp = T0
            /\ iter = NoIter
            /\ hooks = <<"ds_curses_stop">>
            /\ term = "curses"

\* line 235: ds_snake_move(snake, board, dx, dy)
ScenarioMove ==
    /\ pc = "scenario" /\ ticksLeft > 0
    /\ ticksLeft' = ticksLeft - 1
    /\ LET m == ds_snake_move(snake, parts, board, dx, dy)
       IN  /\ snake' = m.snake
           /\ parts' = m.parts
           /\ board' = m.board
    /\ lastMove' = <<dx, dy>>
    /\ UNCHANGED <<prevPassKey, slept, delay, prev_timestamp, timestamp, iter, hooks, term, COLS, LINES, prev_COLS, prev_LINES, dx, dy, key, prev_key, quit,
                   paused, pc, keysLeft, drained, applied, paused0, firstP>>

ScenarioNext == ScenarioMove

ScenarioSpec == ScenarioInit /\ [][ScenarioNext]_vars

\* the number of ds_snake_move calls of the scenario so far
ScenarioMoves == MaxScenarioMoves - ticksLeft

---------------------------------------------------------------------------
(* main(): the process from its start to its end. A return from main is    *)
(* exit(), which runs the functions registered with atexit; a failed       *)
(* assert is abort(), which ends the process without running them. The     *)
(* assertions that can fail are those on the results of malloc.            *)

MainInit ==
    /\ COLS = 0 /\ LINES = 0
    /\ prev_COLS = 0 /\ prev_LINES = 0
    /\ board = NoBoard
    /\ snake = NoSnake
    /\ parts = EmptyHeap
    /\ dx = 0 /\ dy = 0 - 1
    /\ key = Uninit /\ prev_key = Uninit
    /\ quit = FALSE /\ paused = FALSE
    /\ pc = "main"
    /\ keysLeft = MaxEvents
    /\ ticksLeft = MaxKeyTicks
    /\ drained = <<>> /\ applied = 0 /\ paused0 = FALSE
    /\ lastMove = NoMove
    /\ firstP = NoFirstP
    /\ prevPassKey = ERR
    /\ slept = FALSE
    /\ delay = NoTime
    /\ prev_timestamp = NoTime
    /\ timestamp = NoTime
    /\ iter = NoIter
    /\ hooks = <<>>
    /\ term = "shell"

\* lines 305-308: atexit(ds_curses_stop) registers the function, or fails
\* and main returns
Atexit ==
    /\ pc = "main"
    /\ \/ /\ hooks' = Append(hooks, "ds_curses_stop")
          /\ pc' = "curses_start"
       \/ /\ hooks' = hooks
          /\ pc' = "exit"
    /\ UNCHANGED <<prevPassKey, slept, delay, prev_timestamp, timestamp, iter, term, COLS, LINES, prev_COLS, prev_LINES, board, snake, parts, dx,
                   dy, key, prev_key, quit, paused, keysLeft, ticksLeft, drained,
                   applied, paused0, lastMove, firstP>>

\* lines 310-312: ds_curses_start; initscr sets COLS and LINES, the two
\* assertions on them hold
CursesStart ==
    /\ pc = "curses_start"
    /\ term' = "curses"
    /\ \E sz \in KeyTermSizes : COLS' = sz[1] /\ LINES' = sz[2]
    /\ pc' = "game"
    /\ UNCHANGED <<prevPassKey, slept, delay, prev_timestamp, timestamp, iter, hooks, prev_COLS, prev_LINES, board, snake, parts, dx, dy, key,
                   prev_key, quit, paused, keysLeft, ticksLeft, drained, applied,
                   paused0, lastMove, firstP>>

\* lines 198-219: game() up to its loop
GameEnter ==
    /\ pc = "game"
    /\ LET b0 == ds_board_create(COLS, LINES)
           sc == ds_snake_create(parts, COLS \div 2, LINES \div 2)
       IN  /\ board' = ds_board_put_snake(b0, sc.snake, sc.parts)
           /\ snake' = sc.snake
           /\ parts' = sc.parts
    /\ prev_COLS' = COLS /\ prev_LINES' = LINES
    /\ dx' = 0 /\ dy' = 0 - 1
    /\ timestamp' = T0 /\ prev_timestamp' = T0
    /\ quit' = FALSE /\ paused' = FALSE
    /\ pc' = "loop"
    /\ UNCHANGED <<prevPassKey, slept, delay, iter, hooks, term, COLS, LINES, key, prev_key, keysLeft, ticksLeft,
                   drained, applied, paused0, lastMove, firstP>>

\* a malloc of this step would return NULL
MallocCalled ==
    \/ pc = "game"
    \/ pc = "loop" /\ ~quit /\ ticksLeft # 0
          /\ SizeChanged(COLS, prev_COLS, LINES, prev_LINES)
    \/ pc = "step" /\ MoveWanted(paused)

\* lines 74, 79, 121, 124, 166: malloc returns NULL, the assert on its
\* result fails and abort() ends the process
Abort ==
    /\ MallocCalled
    /\ pc' = "aborted"
    /\ UNCHANGED <<prevPassKey, slept, delay, prev_timestamp, timestamp, iter, hooks, term, COLS, LINES, prev_COLS, prev_LINES, board, snake,
                   parts, dx, dy, key, prev_key, quit, paused, keysLeft, ticksLeft,
                   drained, applied, paused0, lastMove, firstP>>

\* line 316: game() has returned, main returns 0
MainReturn ==
    /\ pc = "done"
    /\ pc' = "exit"
    /\ UNCHANGED <<prevPassKey, slept, delay, prev_timestamp, timestamp, iter, hooks, term, COLS, LINES, prev_COLS, prev_LINES, board, snake,
                   parts, dx, dy, key, prev_key, quit, paused, keysLeft, ticksLeft,
                   drained, applied, paused0, lastMove, firstP>>

\* exit(): the registered functions run; ds_curses_stop (lines 64-67) is
\* endwin()
ExitHooks ==
    /\ pc = "exit"
    /\ term' = IF \E i \in DOMAIN hooks : hooks[i] = "ds_curses_stop"
               THEN "shell" ELSE term
    /\ pc' = "exited"
    /\ UNCHANGED <<prevPassKey, slept, delay, prev_timestamp, timestamp, iter, hooks, COLS, LINES, prev_COLS, prev_LINES, board, snake, parts,
                   dx, dy, key, prev_key, quit, paused, keysLeft, ticksLeft,
                   drained, applied, paused0, lastMove, firstP>>

MainNext == Atexit \/ CursesStart \/ GameEnter \/ Abort \/ MainReturn \/ ExitHooks
                \/ LoopTop \/ Step \/ Render \/ GetchNone \/ GetchKey
                \/ GetchResize(KeyTermSizes) \/ Rhythm(SameTime) \/ LoopExit

MainSpec == MainInit /\ [][MainNext]_vars

---------------------------------------------------------------------------
(* game() without keys on a terminal of 1x1, MaxTimerTicks iterations,     *)
(* with clock readings on both sides of a second and of the 50 ms:         *)
(* nanosecond counts of up to two seconds fit the integers of the model    *)
(* checker                                                                 *)

Stamps ==
    [tv_sec : {0, 1},
     tv_nsec : {0, 1, 49999999, 50000000, 50000001, 500000000, 950000001,
                999999999}]

\* lines 198-219, the clock reading of line 215 being any of Stamps
TimerInit ==
    \E t \in Stamps :
        LET b0 == ds_board_create(1, 1)
            sc == ds_snake_create(EmptyHeap, 1 \div 2, 1 \div 2)
        IN  /\ COLS = 1 /\ LINES = 1
            /\ prev_COLS = 1 /\ prev_LINES = 1
            /\ board = ds_board_put_snake(b0, sc.snake, sc.parts)
            /\ snake = sc.snake
            /\ parts = sc.parts
            /\ dx = 0 /\ dy = 0 - 1
            /\ key = Uninit /\ prev_key = Uninit
            /\ quit = FALSE /\ paused = FALSE
            /\ pc = "loop"
            /\ keysLeft = 0
            /\ ticksLeft = MaxTimerTicks
            /\ drained = <<>> /\ applied = 0 /\ paused0 = FALSE
            /\ lastMove = NoMove
            /\ firstP = NoFirstP
            /\ prevPassKey = ERR
            /\ hooks = <<"ds_curses_stop">>
            /\ term = "curses"
            /\ iter = NoIter
            /\ timestamp = t /\ prev_timestamp = t
            /\ delay = NoTime
            /\ slept = FALSE

TimerNext == LoopTop \/ Step \/ Render \/ GetchNone \/ Rhythm(Stamps)

TimerSpec == TimerInit /\ [][TimerNext]_vars

---------------------------------------------------------------------------
(* Steps of game() that the properties speak about *)

\* the step is a call of ds_snake_move
MoveStep == pc = "step" /\ ~paused /\ pc' = "print"

\* the step is a getch() that returned a key
ReadStep == pc = "keys" /\ keysLeft' = keysLeft - 1

Live(heap) == {a \in Addrs : heap[a].live}

HeadPos(s, heap) == heap[s.head].pos

TailPos(s, heap) == heap[s.tail].pos

CellAt(b, pos) == b.text[ArrayIdx(b, pos[1], pos[2])]

\* the last step moved the snake
JustMoved == pc = "print" /\ ~paused /\ lastMove # NoMove

---------------------------------------------------------------------------
(* C1..C4: ds_snake_move *)

\* C1: whenever the snake exists its length is at least 1, and after every
\* completed ds_snake_move (every state: the move is one step) it is at most
\* DS_FULL_GROWN_LEN = 15.
C1_LengthBounds ==
    snake # NoSnake => (1 <= snake.len /\ snake.len <= 15)

C1_Witness == JustMoved /\ snake.len = 15 /\ keysLeft = 0

\* C2: a ds_snake_move of a snake shorter than 15 makes it one longer, keeps
\* every part it had (the tail is the same part, at the same position) and
\* turns no cell of the board into Floor.
C2_GrowsBelowFull ==
    [][(MoveStep /\ snake.len < 15) =>
          /\ snake'.len = snake.len + 1
          /\ snake'.tail = snake.tail
          /\ parts'[snake.tail].live
          /\ parts'[snake.tail].pos = parts[snake.tail].pos
          /\ Live(parts) \subseteq Live(parts')
          /\ \A i \in DOMAIN board.text :
                board'.text[i] = DS_CHAR_FLOOR => board.text[i] = DS_CHAR_FLOOR]_vars

C2_Witness == JustMoved /\ snake.len = 2 /\ snake.tail # snake.head

\* C3 (the claim as stated): a ds_snake_move of a snake of length 15 keeps the
\* length, frees exactly the old tail part and leaves its cell Floor, and adds
\* exactly one head part whose cell is SnakeBody when the call returns.
C3_FullLengthMove ==
    [][(MoveStep /\ snake.len = 15) =>
          /\ snake'.len = 15
          /\ Live(parts) \ Live(parts') = {snake.tail}
          /\ Live(parts') \ Live(parts) = {snake'.head}
          /\ CellAt(board', TailPos(snake, parts)) = DS_CHAR_FLOOR
          /\ CellAt(board', HeadPos(snake', parts')) = DS_CHAR_SNAKE_BODY]_vars

---------------------------------------------------------------------------
(* C5..C9: the keys *)

\* C5: a Left or Right key changes the direction only when dx = 0, an Up or
\* Down key only when dy = 0, and then sets it to the key's unit vector; any
\* other key leaves the direction alone. With direction (1,0): Left and Right
\* leave (1,0), Up sets (0,-1), Down sets (0,1).
C5_ReversalGuard ==
    [][ReadStep =>
          /\ (key' \in {KEY_LEFT, KEY_RIGHT} /\ dx # 0) => (dx' = dx /\ dy' = dy)
          /\ (key' \in {KEY_UP, KEY_DOWN} /\ dy # 0) => (dx' = dx /\ dy' = dy)
          /\ (key' = KEY_LEFT /\ dx = 0) => (dx' = -1 /\ dy' = 0)
          /\ (key' = KEY_RIGHT /\ dx = 0) => (dx' = 1 /\ dy' = 0)
          /\ (key' = KEY_UP /\ dy = 0) => (dx' = 0 /\ dy' = -1)
          /\ (key' = KEY_DOWN /\ dy = 0) => (dx' = 0 /\ dy' = 1)
          /\ (key' \notin {KEY_LEFT, KEY_RIGHT, KEY_UP, KEY_DOWN}) =>
                (dx' = dx /\ dy' = dy)]_vars

\* moving right, a Left key was read and refused
C5_Witness ==
    /\ pc = "keys" /\ drained = <<KEY_RIGHT, KEY_LEFT>>
    /\ key = KEY_LEFT /\ prev_key = KEY_LEFT
    /\ dx = 1 /\ dy = 0

\* C6 (the claim as stated): the direction of a ds_snake_move is never the
\* exact opposite of the direction of the preceding ds_snake_move of the same
\* snake.
C6_NoReversal ==
    [][(MoveStep /\ lastMove # NoMove) =>
          <<dx, dy>> # <<0 - lastMove[1], 0 - lastMove[2]>>]_vars

\* the number of maximal runs of equal consecutive elements
Runs(seq) == Cardinality({i \in DOMAIN seq : i = 1 \/ seq[i] # seq[i - 1]})

\* C7: in a drain pass the switch runs once per maximal run of identical
\* consecutive keys read; a pass of n >= 1 times 'p' and nothing else toggles
\* the paused flag exactly once.
C7_OncePerRun ==
    pc \in {"keys", "rhythm"} =>
        /\ applied = Runs(drained)
        /\ (drained # <<>> /\ \A i \in DOMAIN drained : drained[i] = "p") =>
              (applied = 1 /\ paused = ~paused0)

C7_Witness ==
    pc = "rhythm" /\ drained = <<"p", "p", "p">> /\ applied = 1 /\ paused

\* C8 (the claim as stated): a 'p' read while the game is running and the next
\* key read, again a 'p', in the same pass or a later one, leave the game
\* running with the snake's positions as they were at the first 'p'.
C8_DoubleToggle ==
    [][(ReadStep /\ firstP.armed /\ key' = "p") =>
          (~paused' /\ Positions(snake', parts') = firstP.pos)]_vars

\* C8 (amended): if the first 'p' was applied (not dropped as a repeat) and
\* the second 'p' is read in the drain pass of a later tick, the game is
\* running again, with the positions of the first 'p' unless the terminal
\* was resized in the first 'p's tick before it was read (the next tick then
\* builds a new snake); a second 'p' in the same pass is dropped and the
\* game stays paused, positions unchanged.
C8_DoubleToggleAcrossTicks ==
    [][(ReadStep /\ firstP.armed /\ firstP.applied /\ key' = "p") =>
          /\ (drained = <<>>) => ~paused'
          /\ (drained # <<>>) => paused'
          /\ (drained # <<>> \/ ~firstP.resized) =>
                Positions(snake', parts') = firstP.pos]_vars

\* two keys so far, both 'p', the second applied as the first key of the
\* second tick's pass
C8_Witness ==
    /\ pc = "keys" /\ drained = <<"p">> /\ key = "p"
    /\ keysLeft = MaxKeys - 2 /\ ticksLeft = MaxKeyTicks - 2
    /\ paused0 /\ ~paused
    /\ snake.len = 2

Destroyed == board = NoBoard /\ snake = NoSnake /\ Live(parts) = {}

\* C9: once 'q' is applied the drain pass is over (the 'q' is the last key
\* read), and nothing but the end-of-tick rhythm and the loop exit follow:
\* no key is read, the snake is not moved, nothing is rendered; the program
\* is never stuck before the exit, and after it board and snake are
\* destroyed. This holds whether the game was running or paused.
C9_QuitIsTerminal ==
    /\ [](quit => /\ pc \in {"rhythm", "loop", "done"}
                  /\ drained # <<>> /\ drained[Len(drained)] = "q"
                  /\ (pc = "done" <=> Destroyed)
                  /\ (pc # "done" => ENABLED KeyNext))
    /\ [][quit =>
            /\ ~ReadStep /\ ~MoveStep /\ pc # "print"
            /\ key' = key /\ drained' = drained /\ applied' = applied
            /\ paused' = paused /\ dx' = dx /\ dy' = dy
            /\ pc' # "done" => (board' = board /\ snake' = snake /\ parts' = parts)
            /\ (pc = "rhythm" => pc' = "loop")
            /\ (pc = "loop" => pc' = "done")]_vars

\* the game was paused when 'q' ended it
C9_Witness == pc = "done" /\ quit /\ paused /\ Destroyed

---------------------------------------------------------------------------
(* C10: ds_board_create *)

\* C10: the board has width * height cells (and the terminator after them);
\* the first min(width * height, 32) cells hold the help string, row by row,
\* every other cell is Floor, none is SnakeBody.
C10_BoardCreate ==
    pc = "created" =>
        LET n == COLS * LINES
        IN  /\ board.width = COLS /\ board.height = LINES
            /\ DOMAIN board.text = 0 .. n
            /\ board.text[n] = NUL
            /\ \A y \in 0 .. (LINES - 1) : \A x \in 0 .. (COLS - 1) :
                  LET i == y * COLS + x
                  IN  /\ i < n
                      /\ CellAt(board, <<x, y>>) =
                            (IF i < 32 THEN help[i + 1] ELSE DS_CHAR_FLOOR)
                      /\ CellAt(board, <<x, y>>) # DS_CHAR_SNAKE_BODY

\* a board with room after the help string
C10_Witness ==
    /\ pc = "created" /\ board.width * board.height > 32
    /\ board.text[31] = "." /\ board.text[32] = DS_CHAR_FLOOR

---------------------------------------------------------------------------
(* C11, C12: the scenarios *)

\* C11: on a board of 20x20, from a single part at (10,10), calls of
\* ds_snake_move with one direction never make the snake longer than 15;
\* after the 20th call its 15 parts are on 15 distinct cells, each one
\* toroidal step behind the part before it, in a line that goes over the
\* edge of the board, and the head is back at (10,10).
C11_StraightLine ==
    (pc = "scenario" /\ COLS = 20 /\ LINES = 20) =>
        /\ snake.len <= 15
        /\ (ScenarioMoves = 20) =>
              LET pos == Positions(snake, parts)
              IN  /\ snake.len = 15 /\ Len(pos) = 15
                  /\ Cardinality({pos[i] : i \in DOMAIN pos}) = 15
                  /\ pos[1] = <<10, 10>>
                  /\ \A i \in 1 .. 14 :
                        pos[i + 1] = <<(pos[i][1] - dx) % 20, (pos[i][2] - dy) % 20>>
                  /\ \E i \in 1 .. 14 :
                        pos[i + 1] # <<pos[i][1] - dx, pos[i][2] - dy>>
                  /\ \A i \in 1 .. 15 : CellAt(board, pos[i]) = DS_CHAR_SNAKE_BODY

\* 20 moves up: the head is back at (10,10), the tail is at (10,4), beyond
\* the edge
C11_Witness ==
    /\ pc = "scenario" /\ COLS = 20 /\ LINES = 20
    /\ ScenarioMoves = 20 /\ lastMove = <<0, 0 - 1>>
    /\ HeadPos(snake, parts) = <<10, 10>>
    /\ TailPos(snake, parts) = <<10, 4>>

\* C12 (the claim as stated): after ds_board_create, ds_snake_create at
\* (x,y) and one ds_snake_move with direction (0,-1), the head is at
\* (x, y-1) (one toroidal step up, as C4 has it), the length is 2, and both
\* the starting cell (x,y) and the new head's cell are SnakeBody.
C12_FirstMove ==
    [][(MoveStep /\ snake.len = 1 /\ dx = 0 /\ dy = 0 - 1) =>
          LET start == HeadPos(snake, parts)
              new == HeadPos(snake', parts')
          IN  /\ new = <<start[1], (start[2] - 1) % board.height>>
              /\ snake'.len = 2
              /\ CellAt(board', start) = DS_CHAR_SNAKE_BODY
              /\ CellAt(board', new) = DS_CHAR_SNAKE_BODY]_vars

---------------------------------------------------------------------------
(* C13: main() *)

\* C13 (the claim as stated): however the process ends after it has entered
\* the curses mode, by the return from main after 'q' or by a failed
\* assertion, ds_curses_stop has run and the terminal is in its original
\* mode.
C13_TerminalRestored ==
    pc \in {"exited", "aborted"} => term = "shell"

---------------------------------------------------------------------------
(* C14: the order of a loop iteration *)

\* C14: in every loop iteration the snake is moved once if the paused flag
\* was false when the iteration began and not at all if it was true, with
\* the direction of that moment; the board is rendered once, after the move
\* and before any key of the iteration is read; a key read changes neither
\* snake nor board, and what it sets (direction, paused flag) stays as it
\* is up to the move of the next iteration.
C14_TickOrder ==
    /\ [](/\ (pc = "step") =>
                (iter.moves = 0 /\ iter.renders = 0 /\ iter.reads = 0)
          /\ (pc = "print") =>
                (/\ iter.moves = (IF iter.paused THEN 0 ELSE 1)
                 /\ iter.renders = 0 /\ iter.reads = 0)
          /\ (pc \in {"keys", "rhythm"}) =>
                (/\ iter.moves = (IF iter.paused THEN 0 ELSE 1)
                 /\ iter.renders = 1)
          /\ (pc \in {"print", "keys", "rhythm"} /\ ~iter.paused) =>
                lastMove = iter.dir)
    /\ [][/\ ReadStep =>
                (snake' = snake /\ parts' = parts /\ board' = board)
          /\ (pc \in {"rhythm", "loop", "step"}) =>
                (dx' = dx /\ dy' = dy /\ paused' = paused)
          /\ (pc = "step") =>
                (/\ paused = iter.paused /\ <<dx, dy>> = iter.dir
                 /\ (MoveStep <=> ~iter.paused))]_vars

\* an iteration that began paused, after a 'p' and a Left key: rendered once,
\* not moved, the Left key waits for the first move after the pause
C14_Witness ==
    /\ pc = "rhythm" /\ iter.paused /\ iter.dir = <<0 - 1, 0>>
    /\ iter.moves = 0 /\ iter.renders = 1
    /\ lastMove = <<0, 0 - 1>>

---------------------------------------------------------------------------
(* C15: the resize *)

\* C15: when COLS or LINES differ from the recorded size at the top of an
\* iteration, the board is replaced by a fresh board of the new size (help
\* string, Floor, no SnakeBody), the snake by a fresh snake of one part at
\* (COLS / 2, LINES / 2) (the old parts are freed), the recorded size is
\* updated, and direction and paused flag stay as they are; when the size
\* is the recorded one, board, snake and recorded size stay as they are.
C15_ResizeRecovery ==
    [][(pc = "loop" /\ pc' = "step") =>
          IF COLS # prev_COLS \/ LINES # prev_LINES
          THEN /\ board'.width = COLS /\ board'.height = LINES
               /\ \A i \in 0 .. (COLS * LINES - 1) :
                     board'.text[i] =
                         (IF i < Len(help) THEN help[i + 1] ELSE DS_CHAR_FLOOR)
               /\ snake'.len = 1 /\ snake'.head = snake'.tail
               /\ Live(parts') = {snake'.head}
               /\ HeadPos(snake', parts') = <<COLS \div 2, LINES \div 2>>
               /\ prev_COLS' = COLS /\ prev_LINES' = LINES
               /\ COLS' = COLS /\ LINES' = LINES
               /\ dx' = dx /\ dy' = dy /\ paused' = paused
          ELSE /\ board' = board /\ snake' = snake /\ parts' = parts
               /\ prev_COLS' = prev_COLS /\ prev_LINES' = prev_LINES
               /\ dx' = dx /\ dy' = dy /\ paused' = paused]_vars

\* a resize from one line to two while paused and heading left, after a
\* snake of two parts: the new snake has one part, in the middle
C15_Witness ==
    /\ pc = "step" /\ paused /\ dx = 0 - 1 /\ dy = 0
    /\ iter.paused /\ lastMove = NoMove
    /\ prev_LINES = 2 /\ board.height = 2
    /\ snake.len = 1 /\ HeadPos(snake, parts) = <<0, 1>>
    /\ keysLeft = 0

---------------------------------------------------------------------------
(* C16: the direction *)

\* C16: at every moment of the loop dx and dy are in {-1, 0, 1} and exactly
\* one of them is not 0, so the assertions of ds_snake_move on its direction
\* (lines 160-162) hold at every call, as do those on snake and board
\* (lines 158-159).
C16_DirectionValid ==
    /\ dx \in {0 - 1, 0, 1} /\ dy \in {0 - 1, 0, 1}
    /\ (dx = 0) # (dy = 0)
    /\ (pc = "step") =>
          /\ snake # NoSnake /\ board # NoBoard
          /\ (dx = 0) \/ (dx = 1) \/ (dx = 0 - 1)
          /\ (dy = 0) \/ (dy = 1) \/ (dy = 0 - 1)

\* a second turn: up, right, then down, and the snake has moved down
C16_Witness ==
    /\ JustMoved /\ lastMove = <<0, 1>> /\ dx = 0 /\ dy = 1
    /\ snake.len = 4

---------------------------------------------------------------------------
(* C17: the chain *)

\* C17: whenever the snake exists (after its creation and after every move)
\* the head has no prev and the tail no next; the next links from the head
\* lead through exactly len distinct live parts, the last of them the tail;
\* a.next = b exactly when b.prev = a; and the live parts are those of the
\* chain, none of them pointing to a freed part: a removed tail is freed and
\* out of reach.
C17_ChainIntegrity ==
    snake # NoSnake =>
        LET chain == Chain(snake, parts)
            members == {chain[i] : i \in DOMAIN chain}
            live == Live(parts)
        IN  /\ parts[snake.head].prev = NULL
            /\ parts[snake.tail].next = NULL
            /\ Len(chain) = snake.len
            /\ Cardinality(members) = snake.len
            /\ chain[1] = snake.head /\ chain[Len(chain)] = snake.tail
            /\ members = live
            /\ \A a \in live :
                  /\ parts[a].next \in live \cup {NULL}
                  /\ parts[a].prev \in live \cup {NULL}
            /\ \A a \in live : \A b \in live :
                  (parts[a].next = b) <=> (parts[b].prev = a)

\* the first move that cut the tail: the part at address 1 is freed, the
\* tail is the part that was before it
C17_Witness ==
    /\ pc = "scenario" /\ ScenarioMoves = 15 /\ snake.len = 15
    /\ snake.head = 16 /\ snake.tail = 2
    /\ ~parts[1].live /\ parts[2].next = NULL

---------------------------------------------------------------------------
(* C18: the rhythm *)

\* C18: at the end of a tick the elapsed time is (after.sec * 10^9 +
\* after.nsec) - (before.sec * 10^9 + before.nsec), before being the
\* timestamp recorded at the previous tick and after the one just read; the
\* loop calls nanosleep for exactly 50,000,000 ns minus the elapsed time
\* when that is positive and does not call it otherwise; the timestamp
\* recorded for the next tick is the one just read.
C18_TickPacing ==
    [][(pc = "rhythm" /\ pc' = "loop") =>
          LET before == prev_timestamp
              after == timestamp'
              elapsed == (after.tv_sec * 1000000000 + after.tv_nsec)
                            - (before.tv_sec * 1000000000 + before.tv_nsec)
          IN  /\ (50000000 - elapsed > 0) =>
                    /\ slept'
                    /\ delay'.tv_sec * 1000000000 + delay'.tv_nsec
                          = 50000000 - elapsed
                    /\ delay'.tv_sec >= 0
                    /\ delay'.tv_nsec \in 0 .. 999999999
              /\ (50000000 - elapsed <= 0) => (~slept' /\ delay' = delay)
              /\ prev_timestamp' = after]_vars

\* from 0.999999999 s to 1.000000000 s: 1 ns has passed, the sleep is
\* 49,999,999 ns
C18_Witness ==
    /\ pc = "loop" /\ slept /\ ticksLeft = 0
    /\ timestamp = [tv_sec |-> 1, tv_nsec |-> 0]
    /\ prev_timestamp = timestamp
    /\ delay = [tv_sec |-> 0, tv_nsec |-> 49999999]

---------------------------------------------------------------------------
(* C19: board and snake *)

\* the cells of b painted SnakeBody
Painted(b) ==
    {pos \in (0 .. (b.width - 1)) \X (0 .. (b.height - 1)) :
        CellAt(b, pos) = DS_CHAR_SNAKE_BODY}

\* C19 (the claim as stated): whenever the board is rendered, the cells
\* painted SnakeBody are exactly the positions of the snake's parts.
C19_BoardShowsSnake ==
    pc = "print" =>
        LET pos == Positions(snake, parts)
        IN  Painted(board) = {pos[i] : i \in DOMAIN pos}

---------------------------------------------------------------------------
(* C20: the scope of the de-duplication *)

\* C20: every drain pass starts with prev_key = -1, so the first key read in
\* a pass is applied whatever the last key of the pass before was: a first
\* 'p' toggles the paused flag, a first 'q' quits, a first arrow key turns
\* as the reversal guard allows; a pass in which one 'p' is read toggles the
\* flag once, so that a 'p' in each of k consecutive ticks toggles it k
\* times.
C20_DedupPerPass ==
    /\ []((pc = "keys" /\ drained = <<>>) => prev_key = ERR)
    /\ []((pc = "rhythm" /\ drained = <<"p">>) =>
              (applied = 1 /\ paused = ~paused0))
    /\ [][(ReadStep /\ drained = <<>>) =>
              /\ applied' = 1 /\ prev_key' = key'
              /\ paused' = (IF key' = "p" THEN ~paused ELSE paused)
              /\ quit' = (key' = "q")
              /\ <<dx', dy'>> = DirAfterKey(key', dx, dy)]_vars

\* a 'p' alone in each of three ticks: paused, running, paused
C20_Witness ==
    /\ pc = "rhythm" /\ drained = <<"p">> /\ prevPassKey = "p"
    /\ keysLeft = MaxKeys - 3 /\ ticksLeft = MaxKeyTicks - 3
    /\ paused /\ ~paused0

===========================================================================
